---------------------------- MODULE Spec2Model ----------------------------
(***************************************************************************)
(* Model of src/src/pyrinstratum/pyrinapi.go: the PyrinApi node-connection *)
(* manager.  Start performs one waitForSync and launches two goroutines:   *)
(* startBlockTemplateListener (the "feed") and startStatsThread (the       *)
(* "stats" loop).                                                          *)
(*                                                                         *)
(* Time is discrete (one unit = one second).  Code that does not block     *)
(* (an RPC that answers, a callback, a branch) takes no time: the action   *)
(* Tick, which lets one second pass, is enabled only when every goroutine  *)
(* of the program is blocked (in time.Sleep, or in a select none of whose  *)
(* cases is ready).  The node, the cancellation of ctx and the arrival of  *)
(* notifications are the environment and may act at any moment.  The       *)
(* stats ticker (30 s) is not timed: its firing is an event that may       *)
(* happen at any moment the stats loop waits in its select, which covers   *)
(* every phase it can have against the feed's timers.                      *)
(*                                                                         *)
(* time.Ticker is modelled with the semantics of the Go releases the       *)
(* repository was written for (before Go 1.23): the channel ticker.C has   *)
(* a buffer of one, a firing that finds the buffer full is dropped, and    *)
(* Reset changes the next firing time without draining the buffer.         *)
(***************************************************************************)
EXTENDS Integers, Naturals, FiniteSets, Sequences, TLC

\* ------------------------------------------------------------------ bounds

\* blockWaitTime, the configured fallback period (seconds).
BlockWaitTime == 3
\* History counters saturate at this value.
MaxCount == 3

\* ------------------------------------------------------- program constants

\* time.Sleep(5 * time.Second) in waitForSync.
SyncRetrySleep == 5
\* time.Sleep(5 * time.Second) after a failed reconnect.
ReconnectRetrySleep == 5

VARIABLES
    node,         \* what the node is: "synced", "unsynced", "down"
    cancelled,    \* ctx.Done() is closed
    pyrind,       \* ks.pyrind: "nil" or the identity of a client
    connected,    \* ks.connected
    startPc,      \* position of Start
    startSleep,   \* seconds left of the time.Sleep of Start's waitForSync
    startWfs,     \* what Start's waitForSync(true) returned, until Start returns
    startOut,     \* what the caller of Start receives
    feedPc,       \* position of startBlockTemplateListener
    feedInfo,     \* (clientInfo, err) of the last GetInfo in the feed's waitForSync
    wfsFirst,     \* the first GetInfo answer of the waitForSync call in progress
    wfsCalls,     \* GetInfo calls made by the waitForSync call in progress
    wfsSleeps,    \* sleeps made by the waitForSync call in progress
    iterErr,      \* this iteration: "none", "wfs_err" (reconnected), "reconn_fail"
    sleepLeft,    \* seconds left of the feed's time.Sleep in progress
    registered,   \* the notification handler is registered with the client
    regCalls,     \* calls of RegisterForNewBlockTemplateNotifications so far
    handler,      \* the handler invocation: "idle" or "sending" (blocked on blockReadyChan)
    chanBuf,      \* signals in the buffer of blockReadyChan
    feedTimer,    \* seconds until the feed ticker fires next (0: no ticker yet)
    tickPending,  \* ticker.C of the feed holds a tick
    statsPc,      \* position of startStatsThread
    statsTick,    \* ticker.C of the stats loop holds a tick
    dagOk,        \* this stats tick: GetBlockDAGInfo succeeded
    estOk,        \* this stats tick: EstimateNetworkHashesPerSecond succeeded
    statsCalls,   \* this stats tick: RPCs issued
    statsRecs,    \* this stats tick: calls of RecordNetworkStats
    \* history (observation only)
    sinceCb,      \* seconds since blockReadyCb was last invoked (-1: never)
    lastCb,       \* the branch that invoked blockReadyCb last: "none", "push", "tick"
    pushSeen,     \* a push notification has been consumed by the feed loop
    fired,        \* firings of the feed ticker
    tickCbs,      \* callbacks invoked by the timer branch
    lastReset,    \* the branch that called ticker.Reset last: "none", "push", "tick"
    allSynced,    \* every GetInfo of the feed loop answered synced so far
    slept,        \* the feed loop has been in a time.Sleep
    cbActive,     \* invocations of blockReadyCb in progress
    tie           \* the callback in progress was chosen with both a push and a
                  \* tick ready: "push" or "tick"; else "none"

vars == << node, cancelled, pyrind, connected, startPc, startSleep, startWfs,
           startOut, feedPc, feedInfo, wfsFirst, wfsCalls, wfsSleeps, iterErr,
           sleepLeft, registered, regCalls, handler, chanBuf, feedTimer, tickPending, statsPc,
           statsTick, dagOk, estOk, statsCalls, statsRecs, sinceCb, lastCb, pushSeen, fired, tickCbs,
           lastReset, allSynced, slept, cbActive, tie >>

envVars   == << node, cancelled >>
clientVars == << pyrind, connected >>
startVars == << startPc, startSleep, startWfs, startOut >>
wfsVars   == << feedInfo, wfsFirst, wfsCalls, wfsSleeps >>
tickerVars == << feedTimer, tickPending >>
statsVars == << statsPc, statsTick, dagOk, estOk, statsCalls, statsRecs >>
tickLocals == << dagOk, estOk, statsCalls, statsRecs >>
histVars  == << sinceCb, lastCb, pushSeen, fired, tickCbs, lastReset, allSynced,
               slept, cbActive, tie >>

NodeStates == {"synced", "unsynced", "down"}
CbPcs == {"cb_push", "cb_tick"}

Inc(n) == IF n < MaxCount THEN n + 1 ELSE n

\* ------------------------------------------------------------ pure pieces

\* s.pyrind.GetInfo(): the answer of the node in state n.
GetInfo(n) ==
    CASE n = "down"     -> "error"
      [] n = "synced"   -> "synced"
      [] n = "unsynced" -> "unsynced"

\* One pass of waitForSync's loop on an answer of GetInfo.
WaitForSyncRetryOnError(answer) ==
    IF answer = "synced" THEN "return_ok" ELSE "sleep"

WaitForSyncOutcome(answer) ==
    IF answer = "error" THEN "return_err"
    ELSE IF answer = "synced" THEN "return_ok"
    ELSE "sleep"

\* What Start hands to its caller given waitForSync's result: Start has no
\* result, the value of ks.waitForSync(true) is dropped.
StartResult(wfsResult) == "none"

\* The period of the feed ticker.
TickerPeriodLong == BlockWaitTime + 1

TickerPeriod == BlockWaitTime

\* Where the feed loop goes after the sleep that follows a failed reconnect:
\* the if statement ends and control falls into the select.
AfterRetrySleepGiveUp == "done"

AfterRetrySleep == "select"

\* Whether the select branch ("push" or "tick") calls ticker.Reset after the
\* callback.
ResetAlways(branch) == TRUE

ResetAfter(branch) == branch = "push"

\* Where startBlockTemplateListener goes after the registration, given whether
\* it succeeded: the error is logged and the loop is entered either way.
AfterRegisterFatal(ok) == IF ok THEN "wfs" ELSE "done"

AfterRegister(ok) == "wfs"

\* Where the stats loop goes after GetBlockDAGInfo, given whether it
\* succeeded: on an error the tick is over (continue).
StatsAfterDagIgnoreError(ok) == "estimate"

StatsAfterDag(ok) == IF ok THEN "estimate" ELSE "tick_end"

\* blockReadyChan := make(chan bool): the capacity of the channel.
BlockReadyChanBuffered == 0 + 1

BlockReadyChanCap == 0

\* The handler invocation (h) after the timer branch was taken: the branch
\* does not receive from blockReadyChan.
HandlerAfterTickCoalesced(h) == "idle"

HandlerAfterTick(h) == h

\* reconnect: `if ks.pyrind != nil { return ks.pyrind.Reconnect() }`, else a
\* fresh client is made and stored.
ReconnectAlwaysFresh(client) == FALSE

ReconnectInPlace(client) == client # "nil"

\* The callbacks in progress once the loop goes on after `blockReadyCb()`,
\* of which n were in progress: the call is synchronous, so the loop goes on
\* only when the callback has returned.
CallbackDetached(n) == n

CallbackReturned(n) == n - 1

\* Where the feed loop goes after a reconnect that succeeded.
AfterReconnectOk == "select"

\* case <-blockReadyChan can proceed: the channel holds a signal or a handler
\* invocation is blocked sending into it.
PushReady == chanBuf > 0 \/ handler = "sending"

\* ------------------------------------------------------------------- Init

Init ==
    /\ node \in NodeStates
    /\ cancelled = FALSE
    /\ pyrind = "c0"
    /\ connected = TRUE
    /\ startPc = "idle"
    /\ startSleep = 0
    /\ startWfs = "none"
    /\ startOut = "none"
    /\ feedPc = "idle"
    /\ feedInfo = "none"
    /\ wfsFirst = "none"
    /\ wfsCalls = 0
    /\ wfsSleeps = 0
    /\ iterErr = "none"
    /\ sleepLeft = 0
    /\ registered = FALSE
    /\ regCalls = 0
    /\ handler = "idle"
    /\ chanBuf = 0
    /\ feedTimer = 0
    /\ tickPending = FALSE
    /\ statsPc = "idle"
    /\ statsTick = FALSE
    /\ dagOk = FALSE
    /\ estOk = FALSE
    /\ statsCalls = 0
    /\ statsRecs = 0
    /\ sinceCb = -1
    /\ lastCb = "none"
    /\ pushSeen = FALSE
    /\ fired = 0
    /\ tickCbs = 0
    /\ lastReset = "none"
    /\ allSynced = TRUE
    /\ slept = FALSE
    /\ cbActive = 0
    /\ tie = "none"

\* ------------------------------------------------------------ environment

\* The node changes state (syncs, falls behind, becomes unreachable, returns).
NodeChange ==
    /\ \E n \in NodeStates \ {node} : node' = n
    /\ UNCHANGED << cancelled, clientVars, startVars, feedPc, wfsVars, iterErr,
                    sleepLeft, registered, regCalls, handler, chanBuf, tickerVars, statsVars, histVars >>

\* The owner of ctx cancels it.
Cancel ==
    /\ ~cancelled
    /\ cancelled' = TRUE
    /\ UNCHANGED << node, clientVars, startVars, feedPc, wfsVars, iterErr,
                    sleepLeft, registered, regCalls, handler, chanBuf, tickerVars, statsVars, histVars >>

\* The client delivers a NewBlockTemplate notification: it calls the registered
\* handler, which blocks in `blockReadyChan <- true` (the channel is unbuffered)
\* until the feed loop receives.  The client calls the handler for the next
\* notification only after the previous call has returned.
HandlerInvoke ==
    /\ registered
    /\ handler = "idle"
    /\ IF chanBuf < BlockReadyChanCap
       THEN chanBuf' = chanBuf + 1 /\ handler' = "idle"
       ELSE chanBuf' = chanBuf /\ handler' = "sending"
    /\ UNCHANGED << envVars, clientVars, startVars, feedPc, wfsVars, iterErr,
                    sleepLeft, registered, regCalls, tickerVars, statsVars, histVars >>

\* ------------------------------------------------------------------ Start

\* Start is called: it enters waitForSync(true).
StartCall ==
    /\ startPc = "idle"
    /\ startPc' = "wfs"
    /\ UNCHANGED << envVars, clientVars, startSleep, startWfs, startOut, feedPc,
                    wfsVars, iterErr, sleepLeft, registered, regCalls, handler, chanBuf, tickerVars,
                    statsVars, histVars >>

\* One pass of the loop of Start's waitForSync(true).  When waitForSync
\* returns, whatever it returns, Start launches the two goroutines.
StartGetInfo ==
    /\ startPc = "wfs"
    /\ LET out == WaitForSyncOutcome(GetInfo(node)) IN
         IF out = "sleep"
         THEN /\ startPc' = "sleep"
              /\ startSleep' = SyncRetrySleep
              /\ UNCHANGED << startWfs, startOut, feedPc, statsPc >>
         ELSE /\ startWfs' = (IF out = "return_ok" THEN "ok" ELSE "error")
              /\ startOut' = StartResult(startWfs')
              /\ startPc' = "launched"
              /\ feedPc' = "register"
              /\ statsPc' = "select"
              /\ UNCHANGED startSleep
    /\ UNCHANGED << envVars, clientVars, wfsVars, iterErr, sleepLeft, registered, regCalls,
                    handler, chanBuf, tickerVars, statsTick, tickLocals, histVars >>

\* Start returns: the value of its waitForSync is gone.
StartReturn ==
    /\ startPc = "launched"
    /\ startPc' = "returned"
    /\ startWfs' = "none"
    /\ UNCHANGED << envVars, clientVars, startSleep, startOut, feedPc,
                    wfsVars, iterErr, sleepLeft, registered, regCalls, handler, chanBuf, tickerVars,
                    statsVars, histVars >>

\* The sleep of Start's waitForSync ends.
StartWake ==
    /\ startPc = "sleep"
    /\ startSleep = 0
    /\ startPc' = "wfs"
    /\ UNCHANGED << envVars, clientVars, startSleep, startWfs, startOut, feedPc,
                    wfsVars, iterErr, sleepLeft, registered, regCalls, handler, chanBuf, tickerVars,
                    statsVars, histVars >>


\* ------------------------------------------- startBlockTemplateListener

\* make(chan bool), RegisterForNewBlockTemplateNotifications (its error is
\* only logged), time.NewTicker(s.blockWaitTime); then the first iteration
\* enters waitForSync(false).
FeedRegister ==
    /\ feedPc = "register"
    /\ \E ok \in BOOLEAN :
         /\ registered' = ok
         /\ feedPc' = AfterRegister(ok)
    /\ regCalls' = Inc(regCalls)
    /\ feedTimer' = TickerPeriod
    /\ UNCHANGED << envVars, clientVars, startVars, wfsVars, iterErr, sleepLeft,
                    handler, chanBuf, tickPending, statsVars, histVars >>

\* One pass of the loop of the feed's waitForSync(false): GetInfo, then return
\* the error, return nil, or sleep.
FeedGetInfo ==
    /\ feedPc = "wfs"
    /\ LET answer == GetInfo(node)
           out    == WaitForSyncOutcome(answer) IN
         /\ feedInfo' = answer
         /\ wfsFirst' = (IF wfsCalls = 0 THEN answer ELSE wfsFirst)
         /\ wfsCalls' = Inc(wfsCalls)
         /\ allSynced' = (allSynced /\ answer = "synced")
         /\ IF out = "sleep"
            THEN /\ feedPc' = "wfs_sleep"
                 /\ sleepLeft' = SyncRetrySleep
                 /\ wfsSleeps' = Inc(wfsSleeps)
                 /\ slept' = TRUE
            ELSE /\ feedPc' = "wfs_ret"
                 /\ UNCHANGED << sleepLeft, wfsSleeps, slept >>
    /\ UNCHANGED << envVars, clientVars, startVars, iterErr, registered, regCalls, handler, chanBuf,
                    tickerVars, statsVars, sinceCb, lastCb, pushSeen, fired,
                    tickCbs, lastReset, cbActive, tie >>

\* time.Sleep of waitForSync ends: the loop queries again.
FeedWfsWake ==
    /\ feedPc = "wfs_sleep"
    /\ sleepLeft = 0
    /\ feedPc' = "wfs"
    /\ UNCHANGED << envVars, clientVars, startVars, wfsVars, iterErr, sleepLeft,
                    registered, regCalls, handler, chanBuf, tickerVars, statsVars, histVars >>

\* `if err := s.waitForSync(false); err != nil`: waitForSync has returned and
\* its locals are gone; on an error the loop goes to reconnect, else to the
\* select.
FeedWfsReturn ==
    /\ feedPc = "wfs_ret"
    /\ IF feedInfo = "error"
       THEN feedPc' = "reconnect" /\ iterErr' = "wfs_err"
       ELSE feedPc' = "select" /\ iterErr' = "none"
    /\ feedInfo' = "none"
    /\ wfsFirst' = "none"
    /\ wfsCalls' = 0
    /\ wfsSleeps' = 0
    /\ UNCHANGED << envVars, clientVars, startVars, sleepLeft, registered, regCalls,
                    handler, chanBuf, tickerVars, statsVars, histVars >>

\* s.reconnect(): pyrind is not nil, so it is pyrind.Reconnect(), which
\* succeeds or fails; with a nil pyrind a new client is made and stored.
\* On an error the loop sleeps.
FeedReconnect ==
    /\ feedPc = "reconnect"
    /\ \E ok \in BOOLEAN :
         /\ IF ReconnectInPlace(pyrind)
            THEN UNCHANGED pyrind
            ELSE pyrind' = (IF ok THEN "c1" ELSE pyrind)
         /\ IF ok
            THEN /\ feedPc' = AfterReconnectOk
                 /\ UNCHANGED << iterErr, sleepLeft, slept >>
            ELSE /\ feedPc' = "retry_sleep"
                 /\ iterErr' = "reconn_fail"
                 /\ sleepLeft' = ReconnectRetrySleep
                 /\ slept' = TRUE
    /\ UNCHANGED << envVars, connected, startVars, wfsVars, registered, regCalls, handler, chanBuf,
                    tickerVars, statsVars, sinceCb, lastCb, pushSeen, fired,
                    tickCbs, lastReset, allSynced, cbActive, tie >>

\* The sleep after a failed reconnect ends.
FeedRetryWake ==
    /\ feedPc = "retry_sleep"
    /\ sleepLeft = 0
    /\ feedPc' = AfterRetrySleep
    /\ UNCHANGED << envVars, clientVars, startVars, wfsVars, iterErr, sleepLeft,
                    registered, regCalls, handler, chanBuf, tickerVars, statsVars, histVars >>

\* select, case <-ctx.Done(): return.
FeedSelectCancel ==
    /\ feedPc = "select"
    /\ cancelled
    /\ feedPc' = "done"
    /\ UNCHANGED << envVars, clientVars, startVars, wfsVars, iterErr, sleepLeft,
                    registered, regCalls, handler, chanBuf, tickerVars, statsVars, histVars >>

\* select, case <-blockReadyChan: the blocked handler's send completes and
\* blockReadyCb is called.
FeedSelectPush ==
    /\ feedPc = "select"
    /\ PushReady
    /\ handler' = "idle"
    /\ chanBuf' = (IF chanBuf > 0 /\ handler = "idle" THEN chanBuf - 1 ELSE chanBuf)
    /\ tie' = (IF tickPending THEN "push" ELSE "none")
    /\ feedPc' = "cb_push"
    /\ pushSeen' = TRUE
    /\ lastCb' = "push"
    /\ sinceCb' = 0
    /\ cbActive' = Inc(cbActive)
    /\ UNCHANGED << envVars, clientVars, startVars, wfsVars, iterErr, sleepLeft,
                    registered, regCalls, tickerVars, statsVars, fired, tickCbs, lastReset,
                    allSynced, slept >>

\* select, case <-ticker.C: the buffered tick is taken and blockReadyCb is
\* called.
FeedSelectTick ==
    /\ feedPc = "select"
    /\ tickPending
    /\ tickPending' = FALSE
    /\ handler' = HandlerAfterTick(handler)
    /\ tie' = (IF PushReady THEN "tick" ELSE "none")
    /\ feedPc' = "cb_tick"
    /\ tickCbs' = Inc(tickCbs)
    /\ lastCb' = "tick"
    /\ sinceCb' = 0
    /\ cbActive' = Inc(cbActive)
    /\ UNCHANGED << envVars, clientVars, startVars, wfsVars, iterErr, sleepLeft,
                    registered, regCalls, chanBuf, feedTimer, statsVars, pushSeen, fired,
                    lastReset, allSynced, slept >>

\* blockReadyCb returns in the push branch; ticker.Reset(s.blockWaitTime)
\* sets the next firing a full period ahead and leaves ticker.C as it is.
\* The next iteration enters waitForSync.
FeedPushDone ==
    /\ feedPc = "cb_push"
    /\ IF ResetAfter("push")
       THEN feedTimer' = TickerPeriod /\ lastReset' = "push"
       ELSE UNCHANGED << feedTimer, lastReset >>
    /\ feedPc' = "wfs"
    /\ cbActive' = CallbackReturned(cbActive)
    /\ tie' = "none"
    /\ UNCHANGED << envVars, clientVars, startVars, wfsVars, iterErr, sleepLeft,
                    registered, regCalls, handler, chanBuf, tickPending, statsVars, sinceCb, lastCb,
                    pushSeen, fired, tickCbs, allSynced, slept >>

\* blockReadyCb returns in the timer branch, which does not touch the ticker;
\* the next iteration enters waitForSync.
FeedTickDone ==
    /\ feedPc = "cb_tick"
    /\ IF ResetAfter("tick")
       THEN feedTimer' = TickerPeriod /\ lastReset' = "tick"
       ELSE UNCHANGED << feedTimer, lastReset >>
    /\ feedPc' = "wfs"
    /\ cbActive' = CallbackReturned(cbActive)
    /\ tie' = "none"
    /\ UNCHANGED << envVars, clientVars, startVars, wfsVars, iterErr, sleepLeft,
                    registered, regCalls, handler, chanBuf, tickPending, statsVars, sinceCb, lastCb,
                    pushSeen, fired, tickCbs, allSynced, slept >>

\* ------------------------------------------------------ startStatsThread

\* The stats ticker, made by time.NewTicker when the goroutine starts, fires
\* and a tick goes into its channel.  The body of the loop takes no time and
\* the firings are 30 s apart, so a firing finds the loop in its select.
StatsTickerFire ==
    /\ statsPc = "select"
    /\ ~statsTick
    /\ statsTick' = TRUE
    /\ UNCHANGED << envVars, clientVars, startVars, feedPc, wfsVars, iterErr,
                    sleepLeft, registered, regCalls, handler, chanBuf, tickerVars,
                    statsPc, tickLocals, histVars >>

\* select, case <-ctx.Done(): return.
StatsSelectCancel ==
    /\ statsPc = "select"
    /\ cancelled
    /\ statsPc' = "done"
    /\ UNCHANGED << envVars, clientVars, startVars, feedPc, wfsVars, iterErr,
                    sleepLeft, registered, regCalls, handler, chanBuf, tickerVars,
                    statsTick, tickLocals, histVars >>

\* select, case <-ticker.C: the tick is taken.
StatsSelectTick ==
    /\ statsPc = "select"
    /\ statsTick
    /\ statsTick' = FALSE
    /\ statsPc' = "dag"
    /\ UNCHANGED << envVars, clientVars, startVars, feedPc, wfsVars, iterErr,
                    sleepLeft, registered, regCalls, handler, chanBuf, tickerVars,
                    tickLocals, histVars >>

\* ks.pyrind.GetBlockDAGInfo(): on an error, log and continue.
StatsDagInfo ==
    /\ statsPc = "dag"
    /\ \E ok \in (IF node = "down" THEN {FALSE} ELSE BOOLEAN) :
         /\ dagOk' = ok
         /\ statsPc' = StatsAfterDag(ok)
    /\ statsCalls' = Inc(statsCalls)
    /\ UNCHANGED << envVars, clientVars, startVars, feedPc, wfsVars, iterErr,
                    sleepLeft, registered, regCalls, handler, chanBuf, tickerVars,
                    statsTick, estOk, statsRecs, histVars >>

\* ks.pyrind.EstimateNetworkHashesPerSecond(...): on an error, log and
\* continue; else RecordNetworkStats(...).
StatsEstimate ==
    /\ statsPc = "estimate"
    /\ \E ok \in (IF node = "down" THEN {FALSE} ELSE BOOLEAN) :
         /\ estOk' = ok
         /\ statsRecs' = (IF ok THEN Inc(statsRecs) ELSE statsRecs)
    /\ statsCalls' = Inc(statsCalls)
    /\ statsPc' = "tick_end"
    /\ UNCHANGED << envVars, clientVars, startVars, feedPc, wfsVars, iterErr,
                    sleepLeft, registered, regCalls, handler, chanBuf, tickerVars,
                    statsTick, dagOk, histVars >>

\* The case is over (by continue or by its end): its locals are gone and the
\* for loop enters the select again.
StatsTickEnd ==
    /\ statsPc = "tick_end"
    /\ statsPc' = "select"
    /\ dagOk' = FALSE
    /\ estOk' = FALSE
    /\ statsCalls' = 0
    /\ statsRecs' = 0
    /\ UNCHANGED << envVars, clientVars, startVars, feedPc, wfsVars, iterErr,
                    sleepLeft, registered, regCalls, handler, chanBuf, tickerVars,
                    statsTick, histVars >>

\* ------------------------------------------------------------------- time

\* A goroutine of the program can take a step now.
FeedReady ==
    \/ feedPc \in {"register", "wfs", "wfs_ret", "reconnect", "cb_push", "cb_tick"}
    \/ feedPc \in {"wfs_sleep", "retry_sleep"} /\ sleepLeft = 0
    \/ feedPc = "select" /\ (cancelled \/ tickPending \/ PushReady)

StatsReady ==
    \/ statsPc \in {"dag", "estimate", "tick_end"}
    \/ statsPc = "select" /\ (cancelled \/ statsTick)

StartReady ==
    \/ startPc \in {"wfs", "launched"}
    \/ startPc = "sleep" /\ startSleep = 0

Dec(n) == IF n > 0 THEN n - 1 ELSE 0

\* One second passes: sleeps advance, and a ticker that reaches its firing
\* time puts a tick into its channel (dropped when the buffer is full) and
\* is due again one period later.
Tick ==
    /\ ~FeedReady /\ ~StatsReady /\ ~StartReady
    /\ startSleep' = Dec(startSleep)
    /\ sleepLeft' = Dec(sleepLeft)
    /\ IF feedTimer = 1
       THEN feedTimer' = TickerPeriod /\ tickPending' = TRUE /\ fired' = Inc(fired)
       ELSE feedTimer' = Dec(feedTimer) /\ UNCHANGED << tickPending, fired >>
    /\ sinceCb' = (IF sinceCb >= 0 /\ sinceCb <= BlockWaitTime THEN sinceCb + 1 ELSE sinceCb)
    /\ UNCHANGED << envVars, clientVars, startPc, startWfs, startOut, feedPc,
                    wfsVars, iterErr, registered, regCalls, handler, chanBuf, statsVars, lastCb,
                    pushSeen, tickCbs, lastReset, allSynced, slept, cbActive, tie >>

\* ------------------------------------------------------------------- Next

Next ==
    \/ NodeChange
    \/ Cancel
    \/ HandlerInvoke
    \/ StartCall
    \/ StartGetInfo
    \/ StartReturn
    \/ StartWake
    \/ FeedRegister
    \/ FeedGetInfo
    \/ FeedWfsWake
    \/ FeedWfsReturn
    \/ FeedReconnect
    \/ FeedRetryWake
    \/ FeedSelectCancel
    \/ FeedSelectPush
    \/ FeedSelectTick
    \/ FeedPushDone
    \/ FeedTickDone
    \/ StatsTickerFire
    \/ StatsSelectCancel
    \/ StatsSelectTick
    \/ StatsDagInfo
    \/ StatsEstimate
    \/ StatsTickEnd
    \/ Tick

Spec == Init /\ [][Next]_vars

\* The scheduling the Go runtime gives: a goroutine that can run does run,
\* time passes (only finitely many events happen within a second), and a select whose ctx.Done() case is ready again and again
\* takes it sooner or later (select picks among its ready cases at random).
FeedStep ==
    \/ FeedRegister \/ FeedGetInfo \/ FeedWfsWake \/ FeedWfsReturn
    \/ FeedReconnect \/ FeedRetryWake \/ FeedSelectCancel \/ FeedSelectPush
    \/ FeedSelectTick \/ FeedPushDone \/ FeedTickDone

StatsStep ==
    \/ StatsSelectCancel \/ StatsSelectTick \/ StatsDagInfo \/ StatsEstimate
    \/ StatsTickEnd

StartStep == StartGetInfo \/ StartReturn \/ StartWake

Fairness ==
    /\ SF_vars(Tick)
    /\ WF_vars(FeedStep)
    /\ WF_vars(StatsStep)
    /\ WF_vars(StartStep)
    /\ SF_vars(FeedSelectCancel)
    /\ SF_vars(StatsSelectCancel)

FairSpec == Init /\ [][Next]_vars /\ Fairness

\* ----------------------------------------------------------------- claims

\* The feed loop runs and nothing has disturbed the plain timer mode.
Undisturbed == ~pushSeen /\ ~cancelled /\ allSynced

\* C1 (as stated): with no push consumed and no cancellation, the time since
\* the last invocation of blockReadyCb never exceeds blockWaitTime, whatever
\* the node answers to the sync checks and whatever reconnect returns.
C1_StalenessWhateverNode ==
    (sinceCb >= 0 /\ ~pushSeen /\ ~cancelled) => sinceCb <= BlockWaitTime

\* C1 (amended): with no push consumed, no cancellation, and a feed loop that
\* has never slept (no sync check answered not-synced, no reconnect failed),
\* the time since the last invocation of blockReadyCb never exceeds
\* blockWaitTime.
C1_StalenessWhileSynced ==
    (sinceCb >= 0 /\ ~pushSeen /\ ~cancelled /\ ~slept) => sinceCb <= BlockWaitTime

\* C1 witness: after a sync check that failed and a reconnect that succeeded,
\* the next timer callback is due exactly blockWaitTime after the previous one.
C1_Witness ==
    /\ ~pushSeen /\ ~cancelled /\ ~slept
    /\ ~allSynced
    /\ tickCbs >= 1
    /\ sinceCb = BlockWaitTime
    /\ feedPc = "select"
    /\ tickPending

\* C2: whenever blockReadyCb is being invoked the node reports synced and the
\* iteration's sync check did not return an error (no reconnect happened in it).
C2_CallbackOnlyWhenSynced ==
    feedPc \in CbPcs => (node = "synced" /\ iterErr = "none")

\* C3: an iteration in which waitForSync and then reconnect failed goes back
\* to the sync check after its sleep: it never reaches the select, hence
\* never a callback or the exit.
C3_DegradedSkipsRace ==
    iterErr = "reconn_fail" => feedPc \in {"retry_sleep", "wfs", "wfs_sleep", "wfs_ret"}

\* C4: once ctx is cancelled no invocation of blockReadyCb begins.
C4_NoCallbackAfterCancel ==
    [][cancelled => ~(feedPc' \in CbPcs /\ feedPc \notin CbPcs)]_vars

\* C5: a callback of the timer branch that follows a push callback comes no
\* earlier than blockWaitTime after that push was consumed.
C5_TimerAfterPushWaitsFullPeriod ==
    [][(feedPc = "select" /\ feedPc' = "cb_tick" /\ lastCb = "push")
         => sinceCb >= BlockWaitTime]_vars

\* C6: in plain timer mode (node synced at every check, no push, not
\* cancelled) every firing of the ticker has produced exactly one callback or
\* is the tick waiting in ticker.C, the callbacks are a full period apart, and
\* ticker.Reset has not been called.
C6_OneCallbackPerFiring ==
    Undisturbed =>
        /\ fired < MaxCount => fired = tickCbs + (IF tickPending THEN 1 ELSE 0)
        /\ (sinceCb >= 0 /\ ~tickPending) => sinceCb + feedTimer = BlockWaitTime
        /\ lastReset = "none"

\* C6 witness: two firings, two callbacks, the second in progress.
C6_Witness ==
    /\ Undisturbed
    /\ fired = 2
    /\ tickCbs = 2
    /\ feedPc = "cb_tick"

\* C7: in waitForSync an error answer of GetInfo is followed at once by the
\* return (no sleep), a not-synced answer by the sleep and another query
\* (never by a return), and a return without error comes only on a synced
\* answer; every sleep of the call was for a not-synced answer.
C7_WaitForSyncAsymmetry ==
    /\ feedInfo = "error" => feedPc = "wfs_ret"
    /\ feedInfo = "unsynced" => feedPc \in {"wfs_sleep", "wfs"}
    /\ feedInfo = "synced" => feedPc = "wfs_ret"
    /\ feedPc = "wfs_sleep" => feedInfo = "unsynced"
    /\ (feedPc = "wfs_ret" /\ wfsCalls < MaxCount) => wfsSleeps = wfsCalls - 1

\* C7 witness: a call that slept once on a not-synced answer and then
\* returns the error of its second query.
C7_Witness ==
    /\ feedPc = "wfs_ret"
    /\ feedInfo = "error"
    /\ wfsFirst = "unsynced"
    /\ wfsCalls = 2
    /\ wfsSleeps = 1

\* C8 (as stated): a waitForSync call whose first GetInfo failed returns only
\* after a GetInfo that succeeded, having slept after each failure.
C8_RetriesUntilSuccess ==
    (feedPc = "wfs_ret" /\ wfsFirst = "error") =>
        (feedInfo = "synced" /\ wfsCalls >= 2 /\ wfsSleeps = wfsCalls - 1)

\* C8 (amended): a waitForSync call whose first GetInfo failed returns that
\* error after this single query and without any sleep.
C8_ReturnsFirstError ==
    wfsFirst = "error" =>
        (feedPc = "wfs_ret" /\ feedInfo = "error" /\ wfsCalls = 1 /\ wfsSleeps = 0)

\* C8 witness: the feed's waitForSync returns after a first query that failed.
C8_Witness ==
    feedPc = "wfs_ret" /\ wfsFirst = "error" /\ iterErr = "reconn_fail"

\* C9: the goroutines are launched only after Start's waitForSync(true) has
\* returned, and when it returned an error the caller of Start receives it.
C9_StartSurfacesError ==
    /\ (feedPc # "idle" \/ statsPc # "idle") => startPc \in {"launched", "returned"}
    /\ startWfs = "error" => startOut = "error"

\* C10: once ctx is cancelled, a launched feed loop and stats loop both exit.
C10_ShutdownLiveness ==
    (cancelled /\ feedPc # "idle") ~> (feedPc = "done" /\ statsPc = "done")

\* C11: once the feed loop has returned, no notification handler remains
\* registered with the client and no handler invocation is blocked sending
\* into blockReadyChan.
C11_NoSubscriptionLeak ==
    feedPc = "done" => (~registered /\ handler = "idle")

\* The registration was attempted and returned an error.
RegistrationFailed == feedPc \notin {"idle", "register"} /\ ~registered

\* C12: registration is attempted exactly once, before the first iteration;
\* when it failed the loop still runs (it exits only on cancellation), no
\* handler is ever invoked, and with the node synced at every check and no
\* cancellation every firing of the ticker has produced one callback or is
\* the tick waiting in ticker.C.
C12_TimerOnlyAfterFailedRegistration ==
    /\ regCalls = (IF feedPc \in {"idle", "register"} THEN 0 ELSE 1)
    /\ RegistrationFailed =>
         /\ feedPc = "done" => cancelled
         /\ handler = "idle" /\ ~pushSeen
         /\ (allSynced /\ ~cancelled /\ fired < MaxCount)
               => fired = tickCbs + (IF tickPending THEN 1 ELSE 0)

\* C12 witness: after a failed registration the second timer callback is in
\* progress.
C12_Witness ==
    /\ RegistrationFailed
    /\ allSynced /\ ~cancelled
    /\ fired = 2 /\ tickCbs = 2
    /\ feedPc = "cb_tick"

\* C13: in a stats tick RecordNetworkStats is called once when both queries
\* succeeded and not at all otherwise; the second query is issued only after
\* a successful first one, each query is issued once, and the loop leaves
\* only on cancellation.
C13_StatsTick ==
    /\ statsPc = "dag" => (statsCalls = 0 /\ statsRecs = 0)
    /\ statsPc = "estimate" => (dagOk /\ statsCalls = 1 /\ statsRecs = 0)
    /\ statsPc = "tick_end" =>
         /\ statsRecs = (IF dagOk /\ estOk THEN 1 ELSE 0)
         /\ statsCalls = (IF dagOk THEN 2 ELSE 1)
         /\ estOk => dagOk
    /\ statsPc = "done" => cancelled

\* C13 witness: a tick ends without a record because the second query failed
\* after a successful first one.
C13_Witness ==
    statsPc = "tick_end" /\ dagOk /\ ~estOk /\ statsRecs = 0 /\ statsCalls = 2

\* C14: at most one invocation of blockReadyCb is in progress at any moment.
C14_CallbacksNeverOverlap == cbActive <= 1

\* C14 witness: a callback runs after an earlier one of the other branch has
\* returned, while the next notification is already waiting.
C14_Witness ==
    /\ feedPc = "cb_tick" /\ cbActive = 1
    /\ pushSeen /\ handler = "sending"

\* C15: the feed loop returns only on cancellation, and if from some moment
\* on the node stays reachable and synced and ctx is not cancelled, the
\* launched feed loop invokes blockReadyCb again and again.
C15_RecoveryLiveness ==
    <>[](node = "synced" /\ ~cancelled /\ feedPc # "idle")
       => []<>(feedPc \in CbPcs)

\* C15 witness: mid-run (a timer callback has been made before) the reconnect
\* of this iteration failed, the node is synced again, and a callback is made.
C15_Witness ==
    /\ feedPc = "cb_tick" /\ tickCbs >= 2
    /\ iterErr = "reconn_fail"
    /\ node = "synced" /\ ~cancelled

\* C16 as stated: when a push and a tick are both ready at the select, the
\* push branch is the one taken.
C16_PushWinsTie == tie # "tick"

\* C16 as amended: at such a tie either branch may be taken and exactly one
\* callback runs; when the timer branch is taken the push is kept, its
\* handler invocation stays blocked on the send.
C16_TieTakesEither ==
    /\ tie # "none" => (feedPc \in CbPcs /\ cbActive = 1)
    /\ tie = "push" => feedPc = "cb_push"
    /\ tie = "tick" => (feedPc = "cb_tick" /\ handler = "sending")

\* C16 witness: the timer branch was taken at a tie.
C16_Witness ==
    tie = "tick" /\ feedPc = "cb_tick" /\ handler = "sending" /\ ~cancelled

\* C17: a handler invocation never waits for the feed loop: none is blocked
\* on its send while the loop is in waitForSync, on the retry path, in a
\* callback, or has returned.
C17_HandlerNeverWaits ==
    ~(/\ handler = "sending"
      /\ feedPc \in {"wfs", "wfs_sleep", "wfs_ret", "reconnect", "retry_sleep",
                     "cb_push", "cb_tick", "done"})

\* C18: connected reflects the outcome of the last reconnect: false after a
\* reconnect that failed, true after one that succeeded.
C18_ReconnectUpdatesConnected ==
    /\ iterErr = "reconn_fail" => connected = FALSE
    /\ (iterErr = "wfs_err" /\ feedPc \in {"select", "cb_push", "cb_tick"})
          => connected = TRUE

\* C19: the client reference is never nil and always the client made at
\* construction; no reconnect stores a fresh client.
C19_ClientNeverReplaced == pyrind = "c0"

\* C19 witness: a reconnect has succeeded in this iteration and the loop goes
\* on with the client made at construction.
C19_Witness ==
    iterErr = "wfs_err" /\ feedPc = "select" /\ pyrind = "c0"

\* C20: no signal of a completed handler invocation waits in blockReadyChan
\* (a handler invocation completes only in the step in which the loop
\* receives its signal and starts the push callback, so the push callbacks
\* started equal the handler invocations completed), and at most one signal,
\* that of the blocked handler invocation, is waiting.
C20_PushesNeitherDroppedNorMerged ==
    /\ chanBuf = 0
    /\ chanBuf + (IF handler = "sending" THEN 1 ELSE 0) <= 1
    /\ feedPc = "cb_push" => (pushSeen /\ cbActive = 1)

\* C20 witness: a push callback runs while the next notification's handler
\* invocation is already blocked on its send.
C20_Witness ==
    feedPc = "cb_push" /\ handler = "sending" /\ pushSeen /\ cbActive = 1

=============================================================================
